---------------------------- MODULE Spec2Model ----------------------------
(***************************************************************************)
(* Model of src/src/lib.rs: the generic value type Point<T> (a Vec<T>)     *)
(* with its constructor, dim, dist, apply, the elementwise operators on    *)
(* &Point<T> and the scalar operators on &Point<T> and on Point<T>.        *)
(*                                                                         *)
(* T is instantiated as a signed two's-complement integer of TBits bits    *)
(* (the tests use i32; the width is scaled down so that overflow is        *)
(* reached).  A client holds three variables iv1, iv2, iv3 as the tests    *)
(* do: iv1 and iv2 are built with Point::new, iv3 receives the result of   *)
(* an operator and is dropped before the next operation.                   *)
(***************************************************************************)
EXTENDS Integers, Sequences, FiniteSets, TLC

\* ------------------------------------------------------------------ bounds
TBits == 3
MaxLen == 2
MaxOps == 2

\* ------------------------------------------------- the scalar type T (iN)
Modulus == 2 ^ TBits
TMin == 0 - (2 ^ (TBits - 1))
TMax == (2 ^ (TBits - 1)) - 1
T == TMin .. TMax

\* coordinate and scalar literals the client passes in
Coords == {TMin, -1, 2}
Scalars == {-1, 0, 2}

RECURSIVE SeqsUpTo(_, _)
SeqsUpTo(S, n) ==
    IF n = 0 THEN {<< >>}
    ELSE LET shorter == SeqsUpTo(S, n - 1)
         IN  shorter \cup {Append(q, x) : q \in {r \in shorter : Len(r) = n - 1}, x \in S}

\* the Vec<T> values handed to Point::new: every sequence over Coords up to
\* MaxLen, and the vector of the tests
Seeds == SeqsUpTo(Coords, MaxLen) \cup {<<1, 2, 3>>}

VARIABLES
    pts,              \* iv1, iv2, iv3: the Point each variable holds, or Moved
    built,            \* ghost: the coordinates each live Point was created with
    last,             \* ghost: the most recent operation, its operands and outcome
    prev,             \* ghost: the operation before last in an operator chain
    nops,             \* operators applied in an operator chain
    overflow_checks   \* the build profile: integer overflow panics (debug) or wraps (release)

vars == <<pts, built, last, prev, nops, overflow_checks>>

Vars == {"iv1", "iv2", "iv3"}
Inputs == {"iv1", "iv2"}

\* ------------------------------------------------------------ T arithmetic
\* outcome of one arithmetic expression of T: a value, or a panic
Ok(v) == [ok |-> TRUE, v |-> v]
Trap == [ok |-> FALSE, v |-> 0]

Wrap(r) == ((r - TMin) % Modulus) + TMin

\* +, -, * of iN: overflow panics with overflow checks on, wraps otherwise
Checked(r) ==
    IF r \in T THEN Ok(r)
    ELSE IF overflow_checks THEN Trap ELSE Ok(Wrap(r))

Abs(x) == IF x < 0 THEN 0 - x ELSE x

\* iN division rounds toward zero
TruncDiv(a, b) ==
    IF (a < 0) = (b < 0) THEN Abs(a) \div Abs(b) ELSE 0 - (Abs(a) \div Abs(b))

TAdd(a, b) == Checked(a + b)
TSub(a, b) == Checked(a - b)
TMul(a, b) == Checked(a * b)
\* mutant: a zero divisor yields 0 instead of a panic
TDivUnchecked(a, b) ==
    IF b = 0 THEN Ok(0)
    ELSE IF a = TMin /\ b = -1 THEN Trap
    ELSE Ok(TruncDiv(a, b))

\* iN division panics on a zero divisor and on MIN / -1 in every build
TDiv(a, b) ==
    IF b = 0 THEN Trap
    ELSE IF a = TMin /\ b = -1 THEN Trap
    ELSE Ok(TruncDiv(a, b))

\* ------------------------------------------------------------- f64 values
\* an f64 is kept as v * sqrt(rad); every integer reached here is exact in f64
F64(v) == [v |-> v, rad |-> 1]
IntoF64(x) == F64(x)
Powi2(f) == F64(f.v * f.v)
F64Add(f, g) == F64(f.v + g.v)
F64Sqrt(f) ==
    IF \E r \in 0 .. f.v : r * r = f.v
    THEN F64(CHOOSE r \in 0 .. f.v : r * r = f.v)
    ELSE [v |-> 1, rad |-> f.v]

RECURSIVE F64Sum(_)
F64Sum(fs) == IF fs = << >> THEN F64(0) ELSE F64Add(F64Sum(SubSeq(fs, 1, Len(fs) - 1)), fs[Len(fs)])

\* ---------------------------------------------------------------- results
NoF64 == F64(0)
RPoint(q) == [kind |-> "point", p |-> q, n |-> 0, x |-> NoF64]
RUsize(n) == [kind |-> "usize", p |-> << >>, n |-> n, x |-> NoF64]
RF64(x) == [kind |-> "f64", p |-> << >>, n |-> 0, x |-> x]
Panic == [kind |-> "panic", p |-> << >>, n |-> 0, x |-> NoF64]
NoResult == [kind |-> "none", p |-> << >>, n |-> 0, x |-> NoF64]

\* ------------------------------------------------------------ iterators
Min(a, b) == IF a <= b THEN a ELSE b

\* mutant: pairs up to the longer sequence, the missing side read as 0
ZipPadded(a, b) ==
    [i \in 1 .. (IF Len(a) >= Len(b) THEN Len(a) ELSE Len(b)) |->
        <<IF i <= Len(a) THEN a[i] ELSE 0, IF i <= Len(b) THEN b[i] ELSE 0>>]

\* a.iter().zip(b.iter()): pairs by position, ends with the shorter
Zip(a, b) == [i \in 1 .. Min(Len(a), Len(b)) |-> <<a[i], b[i]>>]

\* .collect() into the Vec of a new Point; a panicking element unwinds
Collect(rs) ==
    IF \E i \in 1 .. Len(rs) : ~rs[i].ok THEN Panic
    ELSE RPoint([i \in 1 .. Len(rs) |-> rs[i].v])

\* ------------------------------------------------------- struct Point<T>
\* what a client variable holds: a Point { p }, or nothing (unbound or moved out)
Moved == [live |-> FALSE, p |-> << >>]

\* Point::new
PointNew(p) == [live |-> TRUE, p |-> p]

\* mutant: the index of the last coordinate instead of the count
PointDimLastIndex(self) == IF Len(self.p) = 0 THEN 0 ELSE Len(self.p) - 1

\* Point::dim
PointDim(self) == Len(self.p)

\* mutant: squares in T before converting to f64
PointDistSquaredInT(self) ==
    F64Sqrt(F64Sum([i \in 1 .. Len(self.p) |-> IntoF64(Wrap(self.p[i] * self.p[i]))]))

\* Point::dist
PointDist(self) ==
    F64Sqrt(F64Sum([i \in 1 .. Len(self.p) |-> Powi2(IntoF64(self.p[i]))]))

\* the fn(&[T]) -> f64 values a client passes to apply: the closure of
\* tests::apply (indexes x[0], x[1], x[2]) and a total sum over the slice
Funcs == {"sum3", "sum"}

RECURSIVE SumAsF64(_)
SumAsF64(xs) ==
    IF xs = << >> THEN F64(0)
    ELSE F64Add(SumAsF64(SubSeq(xs, 1, Len(xs) - 1)), IntoF64(xs[Len(xs)]))

Func(f, xs) ==
    IF f = "sum3"
    THEN IF Len(xs) < 3 THEN Panic
         ELSE RF64(F64Add(F64Add(IntoF64(xs[1]), IntoF64(xs[2])), IntoF64(xs[3])))
    ELSE RF64(SumAsF64(xs))

\* mutant: func sees the slice without its first element
PointApplyTail(self, func) ==
    LET xs == IF self.p = << >> THEN << >> ELSE Tail(self.p)
    IN  [calls |-> <<xs>>, ret |-> Func(func, xs)]

\* Point::apply: the slices func was called with, and what apply returns
PointApply(self, func) == [calls |-> <<self.p>>, ret |-> Func(func, self.p)]

\* impl Add/Sub/Mul<&Point<T>> for &Point<T>
PointAdd(self, other) ==
    LET z == Zip(self.p, other.p)
    IN  Collect([i \in 1 .. Len(z) |-> TAdd(z[i][1], z[i][2])])

\* mutant: operands exchanged
PointSubSwapped(self, other) ==
    LET z == Zip(self.p, other.p)
    IN  Collect([i \in 1 .. Len(z) |-> TSub(z[i][2], z[i][1])])

PointSub(self, other) ==
    LET z == Zip(self.p, other.p)
    IN  Collect([i \in 1 .. Len(z) |-> TSub(z[i][1], z[i][2])])

PointMul(self, other) ==
    LET z == Zip(self.p, other.p)
    IN  Collect([i \in 1 .. Len(z) |-> TMul(z[i][1], z[i][2])])

\* impl Add/Sub/Mul/Div<T> for &Point<T>
PointAddScalar(self, scalar) ==
    Collect([i \in 1 .. Len(self.p) |-> TAdd(self.p[i], scalar)])

PointSubScalar(self, scalar) ==
    Collect([i \in 1 .. Len(self.p) |-> TSub(self.p[i], scalar)])

\* mutant: the first coordinate is skipped
PointMulScalarSkipFirst(self, scalar) ==
    Collect([i \in 1 .. Len(self.p) - 1 |-> TMul(self.p[i + 1], scalar)])

PointMulScalar(self, scalar) ==
    Collect([i \in 1 .. Len(self.p) |-> TMul(self.p[i], scalar)])

\* mutant: operands exchanged
PointDivScalarSwapped(self, scalar) ==
    Collect([i \in 1 .. Len(self.p) |-> TDiv(scalar, self.p[i])])

PointDivScalar(self, scalar) ==
    Collect([i \in 1 .. Len(self.p) |-> TDiv(self.p[i], scalar)])

\* impl Add/Sub/Mul/Div<T> for Point<T>
OwnAddScalar(self, scalar) ==
    Collect([i \in 1 .. Len(self.p) |-> TAdd(self.p[i], scalar)])

\* mutant: operands exchanged
OwnSubScalarSwapped(self, scalar) ==
    Collect([i \in 1 .. Len(self.p) |-> TSub(scalar, self.p[i])])

OwnSubScalar(self, scalar) ==
    Collect([i \in 1 .. Len(self.p) |-> TSub(self.p[i], scalar)])

OwnMulScalar(self, scalar) ==
    Collect([i \in 1 .. Len(self.p) |-> TMul(self.p[i], scalar)])

OwnDivScalar(self, scalar) ==
    Collect([i \in 1 .. Len(self.p) |-> TDiv(self.p[i], scalar)])

\* mutant: the operator takes the Vec out of its receiver
BorrowTakesVec(pt) == [live |-> TRUE, p |-> << >>]

\* the receiver after the call: &self is borrowed and stays, self is moved in
SharedBorrow(pt) == pt
MoveIn(pt) == Moved

\* operator dispatch, as the compiler resolves the operator and receiver type
ElemOps == {"add", "sub", "mul"}
ScalarOps == {"add", "sub", "mul", "div"}

Elementwise(op, a, b) ==
    CASE op = "add" -> PointAdd(a, b)
      [] op = "sub" -> PointSub(a, b)
      [] op = "mul" -> PointMul(a, b)

RefScalar(op, a, s) ==
    CASE op = "add" -> PointAddScalar(a, s)
      [] op = "sub" -> PointSubScalar(a, s)
      [] op = "mul" -> PointMulScalar(a, s)
      [] op = "div" -> PointDivScalar(a, s)

OwnScalar(op, a, s) ==
    CASE op = "add" -> OwnAddScalar(a, s)
      [] op = "sub" -> OwnSubScalar(a, s)
      [] op = "mul" -> OwnMulScalar(a, s)
      [] op = "div" -> OwnDivScalar(a, s)

\* ------------------------------------------------------------------ state
OpRec(op, form, src, src2, lhs, rhs, s, f, calls, res) ==
    [op |-> op, form |-> form, src |-> src, src2 |-> src2, lhs |-> lhs,
     rhs |-> rhs, s |-> s, f |-> f, calls |-> calls, res |-> res]

NoOp == OpRec("none", "-", "-", "-", << >>, << >>, 0, "-", << >>, NoResult)

Init ==
    /\ pts = [x \in Vars |-> Moved]
    /\ built = [x \in Vars |-> << >>]
    /\ last = NoOp
    /\ prev = NoOp
    /\ nops = 0
    /\ overflow_checks \in BOOLEAN

\* a panic unwinds the client: nothing runs after it
Running == last.res.kind # "panic"

\* let iv3 = <result>: a returned Point is bound to iv3, a panic binds nothing
Bind(ps, res) == IF res.kind = "point" THEN [ps EXCEPT !["iv3"] = PointNew(res.p)] ELSE ps
BindBuilt(res) == IF res.kind = "point" THEN [built EXCEPT !["iv3"] = res.p] ELSE built

\* ---------------------------------------------------------------- actions
\* let x = Point::new(v)
New ==
    \E x \in Inputs, v \in Seeds :
        /\ Running
        /\ ~pts["iv3"].live
        /\ ~pts[x].live
        /\ pts' = [pts EXCEPT ![x] = PointNew(v)]
        /\ built' = [built EXCEPT ![x] = v]
        /\ last' = OpRec("new", "-", x, "-", v, << >>, 0, "-", << >>, RPoint(PointNew(v).p))
        /\ UNCHANGED <<prev, nops, overflow_checks>>

\* x.dim()
Dim ==
    \E x \in Inputs :
        /\ Running
        /\ ~pts["iv3"].live
        /\ pts[x].live
        /\ pts' = [pts EXCEPT ![x] = SharedBorrow(pts[x])]
        /\ last' = OpRec("dim", "ref", x, "-", pts[x].p, << >>, 0, "-", << >>, RUsize(PointDim(pts[x])))
        /\ UNCHANGED <<built, prev, nops, overflow_checks>>

\* x.dist()
Dist ==
    \E x \in Inputs :
        /\ Running
        /\ ~pts["iv3"].live
        /\ pts[x].live
        /\ pts' = [pts EXCEPT ![x] = SharedBorrow(pts[x])]
        /\ last' = OpRec("dist", "ref", x, "-", pts[x].p, << >>, 0, "-", << >>, RF64(PointDist(pts[x])))
        /\ UNCHANGED <<built, prev, nops, overflow_checks>>

\* x.apply(f)
Apply ==
    \E x \in Inputs, f \in Funcs :
        /\ Running
        /\ ~pts["iv3"].live
        /\ pts[x].live
        /\ LET r == PointApply(pts[x], f)
           IN  last' = OpRec("apply", "ref", x, "-", pts[x].p, << >>, 0, f, r.calls, r.ret)
        /\ pts' = [pts EXCEPT ![x] = SharedBorrow(pts[x])]
        /\ UNCHANGED <<built, prev, nops, overflow_checks>>

\* let iv3 = &x op &y
ElementwiseOp ==
    \E op \in ElemOps, x \in Inputs, y \in Inputs :
        /\ Running
        /\ ~pts["iv3"].live
        /\ pts[x].live /\ pts[y].live
        /\ LET res == Elementwise(op, pts[x], pts[y])
           IN  /\ pts' = Bind([pts EXCEPT ![x] = SharedBorrow(pts[x]),
                                          ![y] = SharedBorrow(pts[y])], res)
               /\ built' = BindBuilt(res)
               /\ last' = OpRec(op, "elem", x, y, pts[x].p, pts[y].p, 0, "-", << >>, res)
        /\ UNCHANGED <<prev, nops, overflow_checks>>

\* let iv3 = &x op s
ScalarRefOp ==
    \E op \in ScalarOps, x \in Inputs, s \in Scalars :
        /\ Running
        /\ ~pts["iv3"].live
        /\ pts[x].live
        /\ LET res == RefScalar(op, pts[x], s)
           IN  /\ pts' = Bind([pts EXCEPT ![x] = SharedBorrow(pts[x])], res)
               /\ built' = BindBuilt(res)
               /\ last' = OpRec(op, "ref", x, "-", pts[x].p, << >>, s, "-", << >>, res)
        /\ UNCHANGED <<prev, nops, overflow_checks>>

\* let iv3 = x op s
ScalarOwnOp ==
    \E op \in ScalarOps, x \in Inputs, s \in Scalars :
        /\ Running
        /\ ~pts["iv3"].live
        /\ pts[x].live
        /\ LET res == OwnScalar(op, pts[x], s)
           IN  /\ pts' = Bind([pts EXCEPT ![x] = MoveIn(pts[x])], res)
               /\ built' = BindBuilt(res)
               /\ last' = OpRec(op, "own", x, "-", pts[x].p, << >>, s, "-", << >>, res)
        /\ UNCHANGED <<prev, nops, overflow_checks>>

\* iv3 goes out of scope
Drop ==
    /\ Running
    /\ pts["iv3"].live
    /\ pts' = [pts EXCEPT !["iv3"] = Moved]
    /\ built' = [built EXCEPT !["iv3"] = << >>]
    /\ last' = OpRec("drop", "-", "iv3", "-", << >>, << >>, 0, "-", << >>, NoResult)
    /\ UNCHANGED <<prev, nops, overflow_checks>>

Next ==
    \/ New
    \/ Dim
    \/ Dist
    \/ Apply
    \/ ElementwiseOp
    \/ ScalarRefOp
    \/ ScalarOwnOp
    \/ Drop

Spec == Init /\ [][Next]_vars

\* --------------------------------------------------------- operator chains
\* A chained expression iv1 op s op s ...: iv1 is built once, the first
\* operator takes iv1, every later one takes the Point the one before it
\* returned (held in iv3), by reference or by value.
Cur == IF pts["iv3"].live THEN "iv3" ELSE "iv1"

ChainNew ==
    \E v \in Seeds :
        /\ Running
        /\ nops = 0
        /\ ~pts["iv1"].live
        /\ pts' = [pts EXCEPT !["iv1"] = PointNew(v)]
        /\ built' = [built EXCEPT !["iv1"] = v]
        /\ last' = OpRec("new", "-", "iv1", "-", v, << >>, 0, "-", << >>, RPoint(PointNew(v).p))
        /\ UNCHANGED <<prev, nops, overflow_checks>>

\* iv3 = &cur op s
ChainRefOp ==
    \E op \in ScalarOps, s \in Scalars :
        /\ Running
        /\ nops < MaxOps
        /\ pts[Cur].live
        /\ LET res == RefScalar(op, pts[Cur], s)
           IN  /\ pts' = Bind([pts EXCEPT ![Cur] = SharedBorrow(pts[Cur])], res)
               /\ built' = BindBuilt(res)
               /\ last' = OpRec(op, "ref", Cur, "-", pts[Cur].p, << >>, s, "-", << >>, res)
        /\ prev' = last
        /\ nops' = nops + 1
        /\ UNCHANGED overflow_checks

\* iv3 = cur op s
ChainOwnOp ==
    \E op \in ScalarOps, s \in Scalars :
        /\ Running
        /\ nops < MaxOps
        /\ pts[Cur].live
        /\ LET res == OwnScalar(op, pts[Cur], s)
           IN  /\ pts' = Bind([pts EXCEPT ![Cur] = MoveIn(pts[Cur])], res)
               /\ built' = BindBuilt(res)
               /\ last' = OpRec(op, "own", Cur, "-", pts[Cur].p, << >>, s, "-", << >>, res)
        /\ prev' = last
        /\ nops' = nops + 1
        /\ UNCHANGED overflow_checks

ChainNext ==
    \/ ChainNew
    \/ ChainRefOp
    \/ ChainOwnOp

SpecChain == Init /\ [][ChainNext]_vars

\* ================================================================ claims
\* T's arithmetic stated on the mathematical integers, for the claims to
\* compare the operators' results with
MathOp(op, a, b) ==
    CASE op = "add" -> a + b
      [] op = "sub" -> a - b
      [] op = "mul" -> a * b

\* the expression a op b panics instead of yielding a value
Traps(op, a, b) ==
    IF op = "div" THEN b = 0 \/ (a = TMin /\ b = -1)
    ELSE overflow_checks /\ MathOp(op, a, b) \notin T

\* the value of a op b when it does not panic: the quotient rounded toward
\* zero, or the representative in T of the exact result modulo 2^TBits
Value(op, a, b) ==
    IF op = "div"
    THEN CHOOSE q \in (0 - Modulus) .. Modulus :
            \E r \in (0 - Modulus) .. Modulus :
                /\ a = q * b + r
                /\ Abs(r) < Abs(b)
                /\ (r = 0 \/ (r < 0) = (a < 0))
    ELSE CHOOSE w \in T : (w - MathOp(op, a, b)) % Modulus = 0

\* res is what a coordinatewise operator over n coordinate pairs yields:
\* a Point of n coordinates, each the value of l[i] op r[i], or a panic when
\* one of these expressions panics
Coordinatewise(op, n, l, r, res) ==
    IF \E i \in 1 .. n : Traps(op, l[i], r[i])
    THEN res.kind = "panic"
    ELSE /\ res.kind = "point"
         /\ Len(res.p) = n
         /\ \A i \in 1 .. n : res.p[i] = Value(op, l[i], r[i])

IsElem == last.form = "elem"
IsScalar == last.form \in {"ref", "own"} /\ last.op \in ScalarOps
Broadcast(n, s) == [i \in 1 .. n |-> s]

\* C1: for Points a and b of equal dimension n, &a + &b, &a - &b and &a * &b
\* yield a Point of dimension n whose coordinate i is a[i] op b[i] in T's
\* arithmetic, in the same order (the operator panics where T's arithmetic does).
ElementwiseEqualDim ==
    (IsElem /\ Len(last.lhs) = Len(last.rhs)) =>
        Coordinatewise(last.op, Len(last.lhs), last.lhs, last.rhs, last.res)

ElementwiseEqualDimWitness ==
    /\ IsElem
    /\ last.op = "sub"
    /\ last.lhs = <<2, -1>>
    /\ last.rhs = <<-1, 2>>
    /\ last.res.kind = "point"
    /\ last.res.p = <<3, -3>>

\* C10: for Points a and b of different dimension the elementwise operators
\* signal no dimension error: the result has min(dim a, dim b) coordinates,
\* coordinate i being a[i] op b[i]; the longer operand's tail is dropped,
\* whichever operand is the longer.
ElementwiseTruncates ==
    (IsElem /\ Len(last.lhs) # Len(last.rhs)) =>
        Coordinatewise(last.op, Min(Len(last.lhs), Len(last.rhs)), last.lhs, last.rhs, last.res)

ElementwiseTruncatesWitness ==
    /\ IsElem
    /\ last.op = "mul"
    /\ last.lhs = <<1, 2, 3>>
    /\ last.rhs = <<2, -1>>
    /\ last.res.kind = "point"
    /\ last.res.p = <<2, -2>>

FormsAgree ==
    /\ (IsScalar /\ last.form = "own") => last.res = RefScalar(last.op, PointNew(last.lhs), last.s)
    /\ (IsScalar /\ last.form = "ref") => last.res = OwnScalar(last.op, PointNew(last.lhs), last.s)

FormsAgreeWitness ==
    /\ IsScalar
    /\ last.form = "own"
    /\ last.op = "sub"
    /\ last.s = 2
    /\ last.lhs = <<1, 2, 3>>
    /\ last.res.kind = "point"
    /\ last.res.p = <<-1, 0, 1>>
    /\ ~pts[last.src].live

\* C4: Point::new(v) stores v as given, for every length including zero: the
\* new Point's coordinates are v's in v's order, and dim() returns len(v).
NewStoresAsIs ==
    /\ last.op = "new" =>
          /\ pts[last.src].live
          /\ pts[last.src].p = last.lhs
          /\ last.res.kind = "point" /\ last.res.p = last.lhs
    /\ last.op = "dim" =>
          /\ last.res.kind = "usize"
          /\ last.res.n = Len(built[last.src])

NewStoresAsIsWitness ==
    /\ last.op = "dim"
    /\ built[last.src] = <<1, 2, 3>>
    /\ last.res.n = 3

\* a Point's coordinates after scalar-multiplying fit T / after dividing fit T
NoProductOverflows(a, s) == \A i \in 1 .. Len(a) : a[i] * s \in T
DividesEvenly(a, s) == \A i \in 1 .. Len(a) : \E k \in (0 - Modulus) .. Modulus : a[i] = k * s
NoQuotientOverflows(a, s) == \A i \in 1 .. Len(a) : ~(a[i] = TMin /\ s = -1)

MulThenDiv == prev.op = "mul" /\ last.op = "div" /\ prev.s = last.s /\ last.s # 0
DivThenMul == prev.op = "div" /\ last.op = "mul" /\ prev.s = last.s /\ last.s # 0

\* C5 as stated: for every Point a over an integer T and every s # 0,
\* (a * s) / s is a Point equal to a; and when s divides every coordinate
\* evenly, (a / s) * s equals a.
RoundTripAlways ==
    /\ (last.op = "mul" /\ last.s # 0) => last.res.kind = "point"
    /\ MulThenDiv => (last.res.kind = "point" /\ last.res.p = prev.lhs)
    /\ (prev.op = "div" /\ prev.s # 0 /\ DividesEvenly(prev.lhs, prev.s)) => prev.res.kind = "point"
    /\ (DivThenMul /\ DividesEvenly(prev.lhs, prev.s)) =>
          (last.res.kind = "point" /\ last.res.p = prev.lhs)

\* C5 amended: for s # 0, (a * s) / s equals a when no product a[i] * s
\* overflows T; (a / s) * s equals a when s divides every coordinate evenly
\* and no quotient overflows (a[i] = MIN with s = -1).
RoundTripInRange ==
    /\ (MulThenDiv /\ NoProductOverflows(prev.lhs, prev.s)) =>
          (last.res.kind = "point" /\ last.res.p = prev.lhs)
    /\ (prev.op = "div" /\ prev.s # 0 /\ DividesEvenly(prev.lhs, prev.s)
            /\ NoQuotientOverflows(prev.lhs, prev.s)) => prev.res.kind = "point"
    /\ (DivThenMul /\ DividesEvenly(prev.lhs, prev.s) /\ NoQuotientOverflows(prev.lhs, prev.s)) =>
          (last.res.kind = "point" /\ last.res.p = prev.lhs)

RoundTripInRangeWitness ==
    /\ MulThenDiv
    /\ last.s = -1
    /\ prev.lhs = <<1, 2, 3>>
    /\ prev.res.p = <<-1, -2, -3>>
    /\ last.res.kind = "point"
    /\ last.res.p = <<1, 2, 3>>

\* C6: Points are immutable: every live Point holds the coordinates it was
\* created with, and after a non-consuming operation (dim, dist, apply,
\* &a op &b, &a op s) each operand is still live with the coordinates it had,
\* the result being a Point of its own.
PointsImmutable ==
    /\ \A x \in Vars : pts[x].live => pts[x].p = built[x]
    /\ last.form \in {"ref", "elem"} =>
          /\ pts[last.src].live
          /\ pts[last.src].p = last.lhs
    /\ last.form = "elem" =>
          /\ pts[last.src2].live
          /\ pts[last.src2].p = last.rhs

PointsImmutableWitness ==
    /\ last.form = "ref"
    /\ last.op = "add"
    /\ last.s = -1
    /\ last.lhs = <<-1, 2>>
    /\ last.res.kind = "point"
    /\ pts["iv3"].p = <<-2, 1>>
    /\ pts[last.src].p = <<-1, 2>>

\* the sum of the squares of the coordinates, on the mathematical integers
RECURSIVE SumOfSquares(_)
SumOfSquares(xs) == IF xs = << >> THEN 0 ELSE xs[1] * xs[1] + SumOfSquares(Tail(xs))

\* C7: dist() is the square root of the sum of the squares of the coordinates
\* taken as float64: sqrt(14.0) for Point([1,2,3]), 0.0 for the empty Point.
DistIsNorm ==
    last.op = "dist" =>
        /\ last.res.kind = "f64"
        /\ LET n == SumOfSquares(last.lhs)
           IN  IF \E r \in 0 .. n : r * r = n
               THEN last.res.x.rad = 1 /\ last.res.x.v * last.res.x.v = n /\ last.res.x.v >= 0
               ELSE last.res.x.rad = n /\ last.res.x.v = 1
        /\ last.lhs = << >> => last.res.x = F64(0)
        /\ last.lhs = <<1, 2, 3>> => last.res.x = [v |-> 1, rad |-> 14]

DistIsNormWitness ==
    /\ last.op = "dist"
    /\ last.lhs = <<1, 2, 3>>
    /\ last.res.x = [v |-> 1, rad |-> 14]

\* C8: apply(f) calls f exactly once, on the Point's whole coordinate
\* sequence, and returns what f returned: 6.0 for the sum of three
\* coordinates on Point([1,2,3]).
ApplyCallsOnce ==
    last.op = "apply" =>
        /\ last.calls = <<last.lhs>>
        /\ last.res = Func(last.f, last.calls[1])
        /\ pts[last.src].p = last.lhs
        /\ (last.f = "sum3" /\ last.lhs = <<1, 2, 3>>) => (last.res.kind = "f64" /\ last.res.x = F64(6))

ApplyCallsOnceWitness ==
    /\ last.op = "apply"
    /\ last.f = "sum3"
    /\ last.lhs = <<1, 2, 3>>
    /\ last.res.kind = "f64"
    /\ last.res.x = F64(6)

IsTotalCall == last.op \in {"new", "dim", "dist"} \/ (last.op = "apply" /\ last.f = "sum")

\* C9 as stated: new, dim, dist, apply with a total f and every scalar
\* operator return a result for every Point and every scalar.
NoErrorAtAll ==
    (IsTotalCall \/ IsScalar) => last.res.kind # "panic"

\* C9 amended: new, dim, dist and apply with a total f always return; a
\* scalar operator returns unless T's arithmetic panics on a coordinate
\* (division by zero or MIN / -1 in every build, overflow of +, -, * in a
\* build with overflow checks), and then it panics; on the empty Point every
\* scalar operator returns.
NoErrorButArithmetic ==
    /\ IsTotalCall => last.res.kind # "panic"
    /\ IsScalar =>
          (last.res.kind = "panic" <=> \E i \in 1 .. Len(last.lhs) : Traps(last.op, last.lhs[i], last.s))
    /\ (IsScalar /\ last.lhs = << >>) => (last.res.kind = "point" /\ last.res.p = << >>)
    /\ (IsScalar /\ last.res.kind # "panic") => last.res.kind = "point"

NoErrorButArithmeticWitness ==
    /\ IsScalar
    /\ last.op = "div"
    /\ last.s = 0
    /\ last.lhs = <<1, 2, 3>>
    /\ last.res.kind = "panic"

=============================================================================
